---- MODULE Spec2Model ----
(***************************************************************************)
(* A model of the Liquity client library (packages/lib/src/Liquity.ts):    *)
(* the Trove / TroveWithPendingRewards / StabilityDeposit value objects,   *)
(* the insertion-hint resolver used by the state-changing operations, and  *)
(* the debounced watch* subscriptions.                                     *)
(*                                                                         *)
(* Eight specifications share the module:                                  *)
(*   SpecDeposit the StabilityDeposit value object and the read building it*)
(*   SpecTrove   the Trove value objects and the read building them        *)
(*   SpecChange  Differences computed between and applied to value objects *)
(*   SpecHint    one state-changing operation with its hint resolution     *)
(*   SpecWatch   one watch* subscription with its debounce timer           *)
(*   SpecGetTrove getTrove's four concurrent reads of an advancing ledger  *)
(*   SpecTransact a method of a class built by sendableFrom/transactableFrom*)
(*   SpecLUSDDeposit the StabilityDeposit value object of lib-base         *)
(***************************************************************************)
EXTENDS Integers, Sequences, FiniteSets, TLC

VARIABLES
    \* SpecDeposit, SpecTrove: the value object a caller holds, its latest call
    sdep,       \* the StabilityDeposit held
    trove,      \* the Trove / TroveWithPendingRewards held
    last,       \* the latest call: operation, receiver, arguments, result
    \* SpecHint: one state-changing operation of a Liquity object
    userAddress, \* this.userAddress ("" when connected without a signer)
    useHint,    \* Liquity.useHint
    operation,  \* the operation called, with its arguments
    opState,    \* "idle", "pending", "submitted" or "rejected", with the error
    pc,         \* the remote read _findHintForCollateralRatio awaits
    calls,      \* the remote reads issued so far, in order
    resolver,   \* the call of _findHintForCollateralRatio and its outcome
    tx,         \* the state-changing contract calls submitted
    reads,      \* what the remote reads returned, and which one failed
    \* SpecWatch: one watch* subscription
    watching,   \* the watch* method called, "none" before the call
    registered, \* the (contract, filter, listener) registrations made with on()
    unsubscribeCalls, \* how often the returned unsubscribe function was called
    timeoutId,  \* debounce's timeoutId: <<>> when undefined, else <<id>>
    timers,     \* the timers set with setTimeout and neither fired nor cleared
    latestBlock, \* debounce's latestBlock
    fetches,    \* the re-fetches issued, in order, each with its outcome
    delivered,  \* the callback invocations, in order: indices into fetches
    events,     \* the number of events the listeners have received
    burst,      \* the events received since the last timer fired
    seenBlocks, \* the block numbers of all events the debounced listener got
    \* SpecGetTrove: the remote ledger and one call of getTrove
    chain,      \* the remote ledger's state at each block, the latest last
    getTroveCall, \* the call of getTrove: its state and its blockTag
    observed,   \* per remote read: <<>> while in flight, else <<block served at>>
    gotTrove,   \* the Trove the call returned
    \* SpecTransact: one call of a generated Sendable / Transactable method
    txCall,     \* the call: its class, method, state, error and returned value
    stages,     \* the stages called so far, in order, each with its outcome
    receipt,    \* <<>> until waitForReceipt resolves, then <<the mined receipt>>
    \* SpecLUSDDeposit: the lib-base StabilityDeposit a caller holds
    lusdDeposit, \* the StabilityDeposit held
    lusdLast    \* the latest call on it: operation, arguments, result

valueVars == <<sdep, trove, last>>
hintVars == <<userAddress, useHint, operation, opState, pc, calls, resolver, tx, reads>>
watchVars == <<watching, registered, unsubscribeCalls, timeoutId, timers, latestBlock,
               fetches, delivered, events, burst, seenBlocks>>
chainVars == <<chain, getTroveCall, observed, gotTrove>>
transactVars == <<txCall, stages, receipt>>
baseVars == <<lusdDeposit, lusdLast>>
vars == <<valueVars, hintVars, watchVars, chainVars, transactVars, baseVars>>

(***************************************************************************)
(* Fixed-point Decimal (@liquity/decimal).  A Decimal is its integer       *)
(* mantissa at the fixed scale DIGITS; the library's 10^18 is scaled down  *)
(* to keep the products within the checker's integers.                     *)
(***************************************************************************)
DIGITS == 10

\* Decimal.INFINITY: the largest mantissa, the "infinite ratio" sentinel.
INFINITY == 2147483647

Decimal_add(a, b) == a + b

Decimal_sub(a, b) == a - b

\* a * b at the fixed scale: the double-scaled product is divided by DIGITS.
Decimal_mul(a, b) == (a * b) \div DIGITS

\* a * b / c with the full intermediate product; a zero divider gives INFINITY.
Decimal_mulDiv(a, b, c) == IF c = 0 THEN INFINITY ELSE (a * b) \div c

Decimal_lt(a, b) == a < b

Decimal_gt(a, b) == a > b

Decimal_lte(a, b) == a <= b

Decimal_eq(a, b) == a = b

Decimal_isZero(a) == a = 0

Decimal_infinite(a) == a = INFINITY

(***************************************************************************)
(* Difference (@liquity/decimal): a sign and an absolute value; an absent  *)
(* optional Difference is the value Undefined_Difference.                  *)
(***************************************************************************)
Difference(sign, absoluteValue) == [sign |-> sign, absoluteValue |-> absoluteValue]

Undefined_Difference == [sign |-> "undefined", absoluteValue |-> 0]

Difference_between(d1, d2) ==
    IF Decimal_gt(d1, d2) THEN Difference("+", Decimal_sub(d1, d2))
    ELSE IF Decimal_gt(d2, d1) THEN Difference("-", Decimal_sub(d2, d1))
    ELSE Difference("", 0)

Difference_positive(d) == d.sign = "+"

Difference_negative(d) == d.sign = "-"

(***************************************************************************)
(* Trove and TroveWithPendingRewards.  cls is the object's class, what     *)
(* `instanceof` tests; a plain Trove carries no stake and no snapshot.     *)
(***************************************************************************)
Trove(collateral, debt) ==
    [cls |-> "Trove", collateral |-> collateral, debt |-> debt,
     stake |-> 0, snapshotOfTotalRedistributed |-> <<0, 0>>]

TroveWithPendingRewards(collateral, debt, stake, snapshot) ==
    [cls |-> "TroveWithPendingRewards", collateral |-> collateral, debt |-> debt,
     stake |-> stake, snapshotOfTotalRedistributed |-> snapshot]

calculateCollateralRatio_inverted(collateral, debt, price) ==
    Decimal_mulDiv(debt, price, collateral)

\* collateral.mulDiv(price, debt)
calculateCollateralRatio(collateral, debt, price) == Decimal_mulDiv(collateral, price, debt)

\* Liquity.MINIMUM_COLLATERAL_RATIO = Decimal.from(1.1)
MINIMUM_COLLATERAL_RATIO == (11 * DIGITS) \div 10

\* Liquity.CRITICAL_COLLATERAL_RATIO = Decimal.from(1.5)
CRITICAL_COLLATERAL_RATIO == (15 * DIGITS) \div 10

Trove_collateralRatio(t, price) == calculateCollateralRatio(t.collateral, t.debt, price)

Trove_collateralRatioIsBelowMinimum(t, price) ==
    Decimal_lt(Trove_collateralRatio(t, price), MINIMUM_COLLATERAL_RATIO)

Trove_collateralRatioIsBelowCritical(t, price) ==
    Decimal_lt(Trove_collateralRatio(t, price), CRITICAL_COLLATERAL_RATIO)

Trove_add(t, collateral, debt) ==
    Trove(Decimal_add(t.collateral, collateral), Decimal_add(t.debt, debt))

Trove_addCollateral(t, collateral) == Trove_add(t, collateral, 0)

Trove_addDebt(t, debt) == Trove_add(t, 0, debt)

Trove_subtract(t, collateral, debt) ==
    Trove(Decimal_sub(t.collateral, collateral), Decimal_sub(t.debt, debt))

Trove_subtractCollateral(t, collateral) == Trove_subtract(t, collateral, 0)

Trove_subtractDebt(t, debt) == Trove_subtract(t, 0, debt)

Trove_multiply(t, multiplier) ==
    Trove(Decimal_mul(t.collateral, multiplier), Decimal_mul(t.debt, multiplier))

Trove_setCollateral(t, collateral) == Trove(collateral, t.debt)

Trove_setDebt(t, debt) == Trove(t.collateral, debt)

\* A field of the TroveChange is set only when the two values differ.
Trove_whatChanged(t, that) ==
    [collateralDifference |->
        IF ~Decimal_eq(that.collateral, t.collateral)
        THEN Difference_between(that.collateral, t.collateral)
        ELSE Undefined_Difference,
     debtDifference |->
        IF ~Decimal_eq(that.debt, t.debt)
        THEN Difference_between(that.debt, t.debt)
        ELSE Undefined_Difference]

Trove_applyCollateralDifference_copies(t, collateralDifference) ==
    IF Difference_positive(collateralDifference)
    THEN Trove_addCollateral(t, collateralDifference.absoluteValue)
    ELSE IF Difference_negative(collateralDifference)
    THEN IF Decimal_lt(collateralDifference.absoluteValue, t.collateral)
         THEN Trove_subtractCollateral(t, collateralDifference.absoluteValue)
         ELSE Trove_setCollateral(t, 0)
    ELSE Trove(t.collateral, t.debt)

Trove_applyCollateralDifference(t, collateralDifference) ==
    IF Difference_positive(collateralDifference)
    THEN Trove_addCollateral(t, collateralDifference.absoluteValue)
    ELSE IF Difference_negative(collateralDifference)
    THEN IF Decimal_lt(collateralDifference.absoluteValue, t.collateral)
         THEN Trove_subtractCollateral(t, collateralDifference.absoluteValue)
         ELSE Trove_setCollateral(t, 0)
    ELSE t

\* The threshold of the negative branch is this.collateral, as in the source.
Trove_applyDebtDifference(t, debtDifference) ==
    IF Difference_positive(debtDifference)
    THEN Trove_addDebt(t, debtDifference.absoluteValue)
    ELSE IF Difference_negative(debtDifference)
    THEN IF Decimal_lt(debtDifference.absoluteValue, t.collateral)
         THEN Trove_subtractDebt(t, debtDifference.absoluteValue)
         ELSE Trove_setDebt(t, 0)
    ELSE t

Trove_apply(t, change) ==
    Trove_applyDebtDifference(
        Trove_applyCollateralDifference(t, change.collateralDifference),
        change.debtDifference)

applyRewards_swapped(t, totalRedistributed) ==
    Trove_add(t,
        Trove_multiply(
            Trove_subtract(Trove(t.snapshotOfTotalRedistributed[1],
                                 t.snapshotOfTotalRedistributed[2]),
                           totalRedistributed.collateral, totalRedistributed.debt),
            t.stake).collateral,
        Trove_multiply(
            Trove_subtract(Trove(t.snapshotOfTotalRedistributed[1],
                                 t.snapshotOfTotalRedistributed[2]),
                           totalRedistributed.collateral, totalRedistributed.debt),
            t.stake).debt)

\* this.add(totalRedistributed.subtract(this.snapshotOfTotalRedistributed).multiply(this.stake))
applyRewards(t, totalRedistributed) ==
    LET reward == Trove_multiply(
                      Trove_subtract(totalRedistributed,
                                     t.snapshotOfTotalRedistributed[1],
                                     t.snapshotOfTotalRedistributed[2]),
                      t.stake)
    IN Trove_add(t, reward.collateral, reward.debt)

\* _findHint throws on an instance of TroveWithPendingRewards.
findHint_throws(t) == t.cls = "TroveWithPendingRewards"

(***************************************************************************)
(* StabilityDeposit (packages/lib).                                        *)
(***************************************************************************)
StabilityDeposit_unclamped(deposit, pendingCollateralGain, pendingDepositLoss) ==
    [deposit |-> deposit,
     pendingCollateralGain |-> pendingCollateralGain,
     pendingDepositLoss |-> pendingDepositLoss]

\* The constructor: the loss is kept only while the deposit exceeds it.
StabilityDeposit(deposit, pendingCollateralGain, pendingDepositLoss) ==
    [deposit |-> deposit,
     pendingCollateralGain |-> pendingCollateralGain,
     pendingDepositLoss |->
        IF Decimal_gt(deposit, pendingDepositLoss) THEN pendingDepositLoss ELSE deposit]

depositAfterLoss(d) == Decimal_sub(d.deposit, d.pendingDepositLoss)

StabilityDeposit_apply_onRawDeposit(d, difference) ==
    IF Difference_positive(difference)
    THEN StabilityDeposit(Decimal_add(d.deposit, difference.absoluteValue), 0, 0)
    ELSE IF Difference_negative(difference)
    THEN StabilityDeposit(
            IF Decimal_lt(difference.absoluteValue, d.deposit)
            THEN Decimal_sub(d.deposit, difference.absoluteValue)
            ELSE 0,
            0, 0)
    ELSE d

StabilityDeposit_apply(d, difference) ==
    IF Difference_positive(difference)
    THEN StabilityDeposit(Decimal_add(depositAfterLoss(d), difference.absoluteValue), 0, 0)
    ELSE IF Difference_negative(difference)
    THEN StabilityDeposit(
            IF Decimal_lt(difference.absoluteValue, depositAfterLoss(d))
            THEN Decimal_sub(depositAfterLoss(d), difference.absoluteValue)
            ELSE 0,
            0, 0)
    ELSE d

\* apply(difference: Difference) reads difference.positive: without a
\* Difference object that property access raises a TypeError.
StabilityDeposit_apply_throws(difference) == difference = Undefined_Difference

computePendingReward(snapshotValue, currentValue, stake) ==
    LET rewardPerStake == Decimal_sub(currentValue, snapshotValue)
    IN Decimal_mul(rewardPerStake, stake)

\* What getStabilityDeposit builds from the four values it has read.
getStabilityDeposit(deposit, snapshotETH, snapshotCLV, S_ETH, S_CLV) ==
    StabilityDeposit(deposit,
                     computePendingReward(snapshotETH, S_ETH, deposit),
                     computePendingReward(snapshotCLV, S_CLV, deposit))

\* CDPStatus
CDPStatus == {"nonExistent", "active", "closed"}

\* What getTroveWithoutRewards builds from the CDP record and reward snapshot.
getTroveWithoutRewards(cdp, snapshot) ==
    IF cdp.status = "active"
    THEN TroveWithPendingRewards(cdp.coll, cdp.debt, cdp.stake, snapshot)
    ELSE TroveWithPendingRewards(0, 0, 0, <<0, 0>>)

(***************************************************************************)
(* The inputs the value-object specifications draw from.                   *)
(***************************************************************************)
\* The largest whole amount among the sampled deposits (the spec's scenario 2).
MaxDeposit == 100

\* The largest whole amount a held deposit grows to by apply.
MaxHeld == 101

DepositSamples == {0, 1, DIGITS, MaxDeposit * DIGITS}

LossSamples == {0, 1, DIGITS, MaxDeposit * DIGITS, (3 * MaxDeposit * DIGITS) \div 2}

GainSamples == {0, DIGITS}

\* Values of the pool accumulators S_ETH, S_CLV and of their snapshots.
AccumulatorSamples == {0, 1, DIGITS \div 2, (3 * DIGITS) \div 2}

DifferenceSamples ==
    {Difference("", 0)} \cup
    {Difference(s, a) : s \in {"+", "-"}, a \in {DIGITS \div 2, MaxDeposit * DIGITS}}

AmountSamples == {0, 1, DIGITS, 2 * DIGITS}

StakeSamples == {0, 1, DIGITS \div 2, 2 * DIGITS}

\* (L_ETH, L_CLVDebt) as snapshotted by a position ...
SnapshotSamples == {<<0, 0>>, <<DIGITS, 1>>, <<10 * DIGITS, 5 * DIGITS>>}

\* ... and as read now.
TotalSamples ==
    {<<0, 0>>, <<DIGITS, 1>>, <<10 * DIGITS, 5 * DIGITS>>,
     <<10 * DIGITS + 1, 5 * DIGITS + 3>>, <<14 * DIGITS, 7 * DIGITS>>}

PriceSamples == {0, DIGITS, 2 * DIGITS}

NoCall == [op |-> "none"]

AddressZero == "0x0000"

NoOp == [name |-> "none"]

NoResolver == [state |-> "notCalled", collateralRatio |-> 0, price |-> 0,
               address |-> "", hint |-> ""]

NoReads == [count |-> <<>>, approxHint |-> <<>>, between |-> FALSE,
            pair |-> <<>>, failed |-> ""]

\* A Liquity object on which no operation has been called yet.
HintIdle ==
    /\ operation = NoOp
    /\ opState = [state |-> "idle", error |-> ""]
    /\ pc = "idle"
    /\ calls = <<>>
    /\ resolver = NoResolver
    /\ tx = <<>>
    /\ reads = NoReads

NoBurst == [len |-> 0, blocks |-> {}]

\* No watch* method has been called.
WatchIdle ==
    /\ watching = "none"
    /\ registered = {}
    /\ unsubscribeCalls = 0
    /\ timeoutId = <<>>
    /\ timers = {}
    /\ latestBlock = 0
    /\ fetches = <<>>
    /\ delivered = <<>>
    /\ events = 0
    /\ burst = NoBurst
    /\ seenBlocks = {}

\* The reads getTrove fans out: CDPs and rewardSnapshots by
\* getTroveWithoutRewards, L_ETH and L_CLVDebt by getTotalRedistributed.
ReadNames == {"CDPs", "rewardSnapshots", "L_ETH", "L_CLVDebt"}

\* overrides without a blockTag: the node serves the read at its latest block.
Latest == 0

\* The ledger at its first block: one active position with rewards pending.
Genesis ==
    [cdp |-> [status |-> "active", coll |-> 2 * DIGITS, debt |-> DIGITS, stake |-> DIGITS],
     snapshot |-> <<0, 0>>,
     L_ETH |-> DIGITS \div 2,
     L_CLVDebt |-> DIGITS \div 2]

\* getTrove has not been called.
ChainIdle ==
    /\ chain = <<Genesis>>
    /\ getTroveCall = [state |-> "idle", blockTag |-> Latest]
    /\ observed = [r \in ReadNames |-> <<>>]
    /\ gotTrove = Trove(0, 0)

\* No generated method has been called.
TransactIdle ==
    /\ txCall = [class |-> "none", method |-> "none", state |-> "idle", error |-> "",
                 result |-> "none"]
    /\ stages = <<>>
    /\ receipt = <<>>

\* new StabilityDeposit({}) of lib-base: every field defaults to 0.
BaseIdle ==
    /\ lusdDeposit = [initialLUSD |-> 0, currentLUSD |-> 0, collateralGain |-> 0,
                      lqtyReward |-> 0]
    /\ lusdLast = NoCall

\* The caller holds an empty StabilityDeposit and an empty Trove.
ValuesIdle ==
    /\ sdep = StabilityDeposit(0, 0, 0)
    /\ trove = Trove(0, 0)
    /\ last = NoCall

InitValues ==
    /\ ValuesIdle
    /\ userAddress = "0xUser"
    /\ useHint = TRUE
    /\ HintIdle
    /\ WatchIdle
    /\ ChainIdle
    /\ TransactIdle
    /\ BaseIdle

(***************************************************************************)
(* SpecDeposit: StabilityDeposit objects are constructed directly, read    *)
(* with getStabilityDeposit, and changed with apply.                       *)
(***************************************************************************)
NewStabilityDeposit(deposit, gain, loss) ==
    /\ sdep' = StabilityDeposit(deposit, gain, loss)
    /\ last' = [op |-> "new StabilityDeposit", deposit |-> deposit,
                pendingCollateralGain |-> gain, pendingDepositLoss |-> loss]
    /\ UNCHANGED <<trove, hintVars, watchVars, chainVars, transactVars, baseVars>>

\* The four reads of Promise.all have returned these values.
GetStabilityDeposit(deposit, snapshotETH, snapshotCLV, S_ETH, S_CLV) ==
    /\ sdep' = getStabilityDeposit(deposit, snapshotETH, snapshotCLV, S_ETH, S_CLV)
    /\ last' = [op |-> "getStabilityDeposit", deposit |-> deposit,
                snapshotETH |-> snapshotETH, snapshotCLV |-> snapshotCLV,
                S_ETH |-> S_ETH, S_CLV |-> S_CLV]
    /\ UNCHANGED <<trove, hintVars, watchVars, chainVars, transactVars, baseVars>>

\* A caller's deposit stays within MaxHeld whole units.
ApplyToStabilityDeposit(difference) ==
    /\ depositAfterLoss(sdep) + difference.absoluteValue <= MaxHeld * DIGITS
    /\ sdep' = IF StabilityDeposit_apply_throws(difference) THEN sdep
               ELSE StabilityDeposit_apply(sdep, difference)
    /\ last' = [op |-> "StabilityDeposit.apply", this |-> sdep, difference |-> difference,
                threw |-> StabilityDeposit_apply_throws(difference), result |-> sdep']
    /\ UNCHANGED <<trove, hintVars, watchVars, chainVars, transactVars, baseVars>>

NextDeposit ==
    \/ \E d \in DepositSamples, g \in GainSamples, l \in LossSamples :
          NewStabilityDeposit(d, g, l)
    \/ \E d \in DepositSamples, sE, sC, tE, tC \in AccumulatorSamples :
          GetStabilityDeposit(d, sE, sC, tE, tC)
    \/ \E diff \in DifferenceSamples : ApplyToStabilityDeposit(diff)

(***************************************************************************)
(* SpecTrove: Troves are constructed, read with getTroveWithoutRewards,    *)
(* completed with applyRewards and asked for their collateral ratio.       *)
(***************************************************************************)
NewTrove(collateral, debt) ==
    /\ trove' = Trove(collateral, debt)
    /\ last' = [op |-> "new Trove", collateral |-> collateral, debt |-> debt]
    /\ UNCHANGED <<sdep, hintVars, watchVars, chainVars, transactVars, baseVars>>

\* The two reads of Promise.all have returned cdp and snapshot.
GetTroveWithoutRewards(cdp, snapshot) ==
    /\ trove' = getTroveWithoutRewards(cdp, snapshot)
    /\ last' = [op |-> "getTroveWithoutRewards", cdp |-> cdp, snapshot |-> snapshot]
    /\ UNCHANGED <<sdep, hintVars, watchVars, chainVars, transactVars, baseVars>>

ApplyRewards(totalRedistributed) ==
    /\ trove.cls = "TroveWithPendingRewards"
    /\ trove' = applyRewards(trove, totalRedistributed)
    /\ last' = [op |-> "applyRewards", this |-> trove,
                totalRedistributed |-> totalRedistributed, result |-> trove']
    /\ UNCHANGED <<sdep, hintVars, watchVars, chainVars, transactVars, baseVars>>

\* A method that returns: threw is FALSE and result is its value.
Returned(op, this, price, result) ==
    [op |-> op, this |-> this, price |-> price, threw |-> FALSE, result |-> result]

CollateralRatio(price) ==
    /\ last' = Returned("collateralRatio", trove, price, Trove_collateralRatio(trove, price))
    /\ UNCHANGED <<trove, sdep, hintVars, watchVars, chainVars, transactVars, baseVars>>

CollateralRatioIsBelowMinimum(price) ==
    /\ last' = Returned("collateralRatioIsBelowMinimum", trove, price,
                        Trove_collateralRatioIsBelowMinimum(trove, price))
    /\ UNCHANGED <<trove, sdep, hintVars, watchVars, chainVars, transactVars, baseVars>>

CollateralRatioIsBelowCritical(price) ==
    /\ last' = Returned("collateralRatioIsBelowCritical", trove, price,
                        Trove_collateralRatioIsBelowCritical(trove, price))
    /\ UNCHANGED <<trove, sdep, hintVars, watchVars, chainVars, transactVars, baseVars>>

\* _findHint on the Trove held: it throws, or hands the ratio to the resolver.
FindHint(price) ==
    /\ last' = [op |-> "_findHint", this |-> trove, price |-> price,
                threw |-> findHint_throws(trove),
                result |-> Trove_collateralRatio(trove, price)]
    /\ UNCHANGED <<trove, sdep, hintVars, watchVars, chainVars, transactVars, baseVars>>

CDPSamples ==
    [status : CDPStatus, coll : AmountSamples, debt : AmountSamples, stake : StakeSamples]

NextTrove ==
    \/ \E c, d \in AmountSamples : NewTrove(c, d)
    \/ \E cdp \in CDPSamples, s \in SnapshotSamples : GetTroveWithoutRewards(cdp, s)
    \/ \E t \in TotalSamples : ApplyRewards(Trove(t[1], t[2]))
    \/ \E p \in PriceSamples : CollateralRatio(p)
    \/ \E p \in PriceSamples : CollateralRatioIsBelowMinimum(p)
    \/ \E p \in PriceSamples : CollateralRatioIsBelowCritical(p)
    \/ \E p \in PriceSamples : FindHint(p)

SpecDeposit == InitValues /\ [][NextDeposit]_vars

SpecTrove == InitValues /\ [][NextTrove]_vars

(***************************************************************************)
(* C3: every StabilityDeposit satisfies pendingDepositLoss <= deposit, so   *)
(* depositAfterLoss is never negative; when the raw loss                   *)
(* (S_CLV - snapshot.CLV) * deposit read by getStabilityDeposit, or the    *)
(* loss handed to the constructor, exceeds the deposit, the pending loss   *)
(* is the deposit exactly and depositAfterLoss is 0.                       *)
(***************************************************************************)
C3_RawLoss ==
    IF last.op = "getStabilityDeposit"
    THEN ((last.S_CLV - last.snapshotCLV) * last.deposit) \div DIGITS
    ELSE last.pendingDepositLoss

C3_LossNeverExceedsDeposit ==
    /\ sdep.pendingDepositLoss <= sdep.deposit
    /\ sdep.deposit - sdep.pendingDepositLoss >= 0
    /\ (/\ last.op \in {"getStabilityDeposit", "new StabilityDeposit"}
        /\ C3_RawLoss > last.deposit)
       => /\ sdep.pendingDepositLoss = last.deposit
          /\ sdep.deposit - sdep.pendingDepositLoss = 0

\* Deposit 100 with raw loss 150: the loss is 100 and nothing is left.
C3_Witness ==
    /\ last.op = "getStabilityDeposit"
    /\ last.deposit = 100 * DIGITS
    /\ C3_RawLoss = 150 * DIGITS
    /\ sdep.deposit = 100 * DIGITS
    /\ sdep.pendingDepositLoss = 100 * DIGITS
    /\ depositAfterLoss(sdep) = 0

(***************************************************************************)
(* C4: applyRewards on a position with stake S, raw (c, d) and snapshot    *)
(* (c0, d0), given totals (c1, d1) with c1 >= c0 and d1 >= d0, returns     *)
(* collateral c + S*(c1-c0) and debt d + S*(d1-d0), the products being     *)
(* fixed-point products at the Decimal scale; with stake 0 collateral and  *)
(* debt are unchanged whatever the totals.                                 *)
(***************************************************************************)
C4_ApplyRewardsAddsStakeTimesDelta ==
    last.op = "applyRewards" =>
        LET S  == last.this.stake
            c  == last.this.collateral
            d  == last.this.debt
            c0 == last.this.snapshotOfTotalRedistributed[1]
            d0 == last.this.snapshotOfTotalRedistributed[2]
            c1 == last.totalRedistributed.collateral
            d1 == last.totalRedistributed.debt
        IN /\ (c1 >= c0 /\ d1 >= d0) =>
                /\ last.result.collateral = c + (S * (c1 - c0)) \div DIGITS
                /\ last.result.debt = d + (S * (d1 - d0)) \div DIGITS
           /\ S = 0 => (last.result.collateral = c /\ last.result.debt = d)
           /\ trove = last.result

\* Stake 2, snapshot (10, 5), totals (14, 7): (8, 4) is added.
C4_Witness ==
    /\ last.op = "applyRewards"
    /\ last.this.stake = 2 * DIGITS
    /\ last.this.snapshotOfTotalRedistributed = <<10 * DIGITS, 5 * DIGITS>>
    /\ last.totalRedistributed.collateral = 14 * DIGITS
    /\ last.totalRedistributed.debt = 7 * DIGITS
    /\ last.this.collateral = DIGITS
    /\ last.result.collateral = DIGITS + 8 * DIGITS
    /\ last.result.debt = last.this.debt + 4 * DIGITS

(***************************************************************************)
(* SpecHint: a state-changing operation and _findHintForCollateralRatio.   *)
(***************************************************************************)
OperationNames ==
    {"openTrove", "depositEther", "withdrawEther", "borrowQui", "repayQui",
     "changeTrove", "transferCollateralGainToTrove"}

\* The Trove whose collateral ratio the operation looks a hint up for.
finalTrove(name, initialTrove, amount, change) ==
    CASE name = "openTrove" -> initialTrove
      [] name = "depositEther" -> Trove_addCollateral(initialTrove, amount)
      [] name = "withdrawEther" -> Trove_subtractCollateral(initialTrove, amount)
      [] name = "borrowQui" -> Trove_addDebt(initialTrove, amount)
      [] name = "repayQui" -> Trove_subtractDebt(initialTrove, amount)
      [] name = "changeTrove" -> Trove_apply(initialTrove, change)
      [] name = "transferCollateralGainToTrove" -> Trove_addCollateral(initialTrove, amount)

\* The contract method the operation submits once it has its hint.
contractMethod(name) ==
    CASE name = "openTrove" -> "borrowerOperations.openLoan"
      [] name = "depositEther" -> "borrowerOperations.addColl"
      [] name = "withdrawEther" -> "borrowerOperations.withdrawColl"
      [] name = "borrowQui" -> "borrowerOperations.withdrawCLV"
      [] name = "repayQui" -> "borrowerOperations.repayCLV"
      [] name = "changeTrove" -> "borrowerOperations.adjustLoan"
      [] name = "transferCollateralGainToTrove" -> "poolManager.withdrawFromSPtoCDP"

returnsAddressZero_onlyWhenEmpty(numberOfTroves, collateralRatio) == numberOfTroves = 0

\* !numberOfTroves || collateralRatio.infinite
returnsAddressZero(numberOfTroves, collateralRatio) ==
    numberOfTroves = 0 \/ Decimal_infinite(collateralRatio)

Math_sqrt_floor(n) == CHOOSE k \in 0..n : k * k <= n /\ (k + 1) * (k + 1) > n

numberOfTrials_floor(numberOfTroves) == Math_sqrt_floor(numberOfTroves)

numberOfTrials_times10(numberOfTroves) ==
    10 * (IF Math_sqrt_floor(numberOfTroves) * Math_sqrt_floor(numberOfTroves) = numberOfTroves
          THEN Math_sqrt_floor(numberOfTroves)
          ELSE Math_sqrt_floor(numberOfTroves) + 1)

\* Math.ceil(Math.sqrt(numberOfTroves))
numberOfTrials(numberOfTroves) ==
    IF Math_sqrt_floor(numberOfTroves) * Math_sqrt_floor(numberOfTroves) = numberOfTroves
    THEN Math_sqrt_floor(numberOfTroves)
    ELSE Math_sqrt_floor(numberOfTroves) + 1

getCDPOwnersCountCall == [fn |-> "getCDPOwnersCount"]

getApproxHintCall(collateralRatio, trials) ==
    [fn |-> "getApproxHint", collateralRatio |-> collateralRatio, numberOfTrials |-> trials]

findInsertPositionCall_seededWithAddress(collateralRatio, price, approxHint) ==
    [fn |-> "findInsertPosition", collateralRatio |-> collateralRatio, price |-> price,
     prevId |-> approxHint, nextId |-> AddressZero]

\* findInsertPosition(collateralRatio, price, approxHint, approxHint)
findInsertPositionCall(collateralRatio, price, approxHint) ==
    [fn |-> "findInsertPosition", collateralRatio |-> collateralRatio, price |-> price,
     prevId |-> approxHint, nextId |-> approxHint]

\* const { 0: hint } = await this.sortedCDPs.findInsertPosition(...)
hintOfPosition(position) == position[1]

\* The awaited hint has arrived: the contract call is submitted with it.
submitted(name, hint) ==
    /\ tx' = Append(tx, [method |-> contractMethod(name), hint |-> hint])
    /\ opState' = [state |-> "submitted", error |-> ""]
    /\ pc' = "done"

rejected(error) ==
    /\ opState' = [state |-> "rejected", error |-> error]
    /\ pc' = "done"
    /\ UNCHANGED tx

\* The call of an operation, up to its first await of a remote read.
CallOperation(name, initialTrove, amount, change, price) ==
    /\ pc = "idle"
    /\ operation' = [name |-> name, initialTrove |-> initialTrove, amount |-> amount,
                     change |-> change, price |-> price]
    /\ LET final == finalTrove(name, initialTrove, amount, change)
           collateralRatio == Trove_collateralRatio(final, price)
       IN /\ final.collateral >= 0
          /\ final.debt >= 0
          /\ IF userAddress = ""
             THEN /\ rejected("An address is required")
                  /\ UNCHANGED <<calls, resolver>>
             ELSE IF findHint_throws(final)
             THEN /\ rejected("Rewards must be applied to this Trove")
                  /\ UNCHANGED <<calls, resolver>>
             ELSE IF ~useHint
             THEN /\ resolver' = [state |-> "returned", collateralRatio |-> collateralRatio,
                                  price |-> price, address |-> userAddress,
                                  hint |-> userAddress]
                  /\ submitted(name, userAddress)
                  /\ UNCHANGED calls
             ELSE /\ resolver' = [state |-> "pending", collateralRatio |-> collateralRatio,
                                  price |-> price, address |-> userAddress, hint |-> ""]
                  /\ calls' = <<getCDPOwnersCountCall>>
                  /\ opState' = [state |-> "pending", error |-> ""]
                  /\ pc' = "getCDPOwnersCount"
                  /\ UNCHANGED tx
    /\ UNCHANGED <<userAddress, useHint, reads, valueVars, watchVars, chainVars, transactVars, baseVars>>

\* getCDPOwnersCount returns numberOfTroves.
CountReturns(numberOfTroves) ==
    /\ pc = "getCDPOwnersCount"
    /\ reads' = [reads EXCEPT !.count = <<numberOfTroves>>]
    /\ IF returnsAddressZero(numberOfTroves, resolver.collateralRatio)
       THEN /\ resolver' = [resolver EXCEPT !.state = "returned", !.hint = AddressZero]
            /\ submitted(operation.name, AddressZero)
            /\ UNCHANGED calls
       ELSE /\ calls' = Append(calls, getApproxHintCall(resolver.collateralRatio,
                                                       numberOfTrials(numberOfTroves)))
            /\ pc' = "getApproxHint"
            /\ UNCHANGED <<resolver, tx, opState>>
    /\ UNCHANGED <<userAddress, useHint, operation, valueVars, watchVars, chainVars, transactVars, baseVars>>

\* getApproxHint returns approxHint; between tells whether the target ratio
\* lies between two neighbours of the list that the remote party sampled.
ApproxHintReturns(approxHint, between) ==
    /\ pc = "getApproxHint"
    /\ reads' = [reads EXCEPT !.approxHint = <<approxHint>>, !.between = between]
    /\ calls' = Append(calls, findInsertPositionCall(resolver.collateralRatio,
                                                     resolver.price, approxHint))
    /\ pc' = "findInsertPosition"
    /\ UNCHANGED <<userAddress, useHint, operation, opState, resolver, tx, valueVars, watchVars, chainVars, transactVars, baseVars>>

\* findInsertPosition returns the pair position.
InsertPositionReturns(position) ==
    /\ pc = "findInsertPosition"
    /\ reads' = [reads EXCEPT !.pair = position]
    /\ resolver' = [resolver EXCEPT !.state = "returned", !.hint = hintOfPosition(position)]
    /\ submitted(operation.name, hintOfPosition(position))
    /\ UNCHANGED <<userAddress, useHint, operation, calls, valueVars, watchVars, chainVars, transactVars, baseVars>>

ReadFails_fallsBack ==
    /\ pc \in {"getCDPOwnersCount", "getApproxHint", "findInsertPosition"}
    /\ reads' = [reads EXCEPT !.failed = pc]
    /\ resolver' = [resolver EXCEPT !.state = "returned", !.hint = resolver.address]
    /\ submitted(operation.name, resolver.address)
    /\ UNCHANGED <<userAddress, useHint, operation, calls, valueVars, watchVars, chainVars, transactVars, baseVars>>

\* The awaited remote read fails: the await throws in
\* _findHintForCollateralRatio and then in the operation awaiting the hint.
ReadFails ==
    /\ pc \in {"getCDPOwnersCount", "getApproxHint", "findInsertPosition"}
    /\ reads' = [reads EXCEPT !.failed = pc]
    /\ resolver' = [resolver EXCEPT !.state = "rejected"]
    /\ rejected("remote read failed")
    /\ UNCHANGED <<userAddress, useHint, operation, calls, valueVars, watchVars, chainVars, transactVars, baseVars>>

HintTroves ==
    {Trove(c, d) : c \in {DIGITS, 2 * DIGITS}, d \in {0, DIGITS}} \cup
    {TroveWithPendingRewards(c, d, DIGITS, <<0, 0>>) : c \in {DIGITS, 2 * DIGITS},
                                                       d \in {0, DIGITS}}

NoChange == [collateralDifference |-> Undefined_Difference,
             debtDifference |-> Undefined_Difference]

ChangeSamples ==
    {NoChange,
     [collateralDifference |-> Difference("+", DIGITS),
      debtDifference |-> Undefined_Difference],
     [collateralDifference |-> Difference("-", DIGITS),
      debtDifference |-> Difference("+", DIGITS)],
     [collateralDifference |-> Undefined_Difference,
      debtDifference |-> Difference("-", DIGITS)]}

HintAmounts == {0, DIGITS}

HintPrices == {DIGITS, 2 * DIGITS}

\* Sizes of the remote list that getCDPOwnersCount reports.
NumberOfTrovesSamples == {0, 1, 2, 3, 4, 5, 9, 10, 100, 101}

Addresses == {AddressZero, "0xUser", "0xA", "0xB"}

Positions == {<<"0xA", "0xB">>, <<"0xB", AddressZero>>, <<AddressZero, "0xA">>}

InitHint ==
    /\ userAddress \in {"", "0xUser"}
    /\ useHint \in BOOLEAN
    /\ HintIdle
    /\ ValuesIdle
    /\ WatchIdle
    /\ ChainIdle
    /\ TransactIdle
    /\ BaseIdle

NextHint ==
    \/ \E name \in OperationNames \ {"changeTrove"}, t \in HintTroves,
          a \in HintAmounts, p \in HintPrices :
          CallOperation(name, t, a, NoChange, p)
    \/ \E t \in HintTroves, c \in ChangeSamples, p \in HintPrices :
          CallOperation("changeTrove", t, 0, c, p)
    \/ \E n \in NumberOfTrovesSamples : CountReturns(n)
    \/ \E a \in Addresses \ {"0xUser"}, b \in BOOLEAN : ApproxHintReturns(a, b)
    \/ \E position \in Positions : InsertPositionReturns(position)
    \/ ReadFails

SpecHint == InitHint /\ [][NextHint]_vars

HintLookups == {"getApproxHint", "findInsertPosition"}

CallsOf(fn) == {i \in 1..Len(calls) : calls[i].fn = fn}

(***************************************************************************)
(* C5: an operation handed a TroveWithPendingRewards fails with the        *)
(* unapplied-rewards error, reads nothing remote for a hint and submits no *)
(* contract call.                                                          *)
(***************************************************************************)
C5_UnappliedRewardsStopTheOperation ==
    (/\ operation # NoOp
     /\ userAddress # ""
     /\ operation.initialTrove.cls = "TroveWithPendingRewards")
    => /\ opState = [state |-> "rejected", error |-> "Rewards must be applied to this Trove"]
       /\ \A i \in 1..Len(calls) : calls[i].fn \notin HintLookups
       /\ tx = <<>>

(***************************************************************************)
(* C6: collateralRatio, collateralRatioIsBelowMinimum,                     *)
(* collateralRatioIsBelowCritical and _findHint, called on a               *)
(* TroveWithPendingRewards, throw instead of returning a value.            *)
(***************************************************************************)
C6_RatioOperationsFailOnUnappliedRewards ==
    (/\ last.op \in {"collateralRatio", "collateralRatioIsBelowMinimum",
                     "collateralRatioIsBelowCritical", "_findHint"}
     /\ last.this.cls = "TroveWithPendingRewards")
    => last.threw

(***************************************************************************)
(* C7: when a remote read of the hint resolution fails, the resolver       *)
(* rejects and yields no hint, and the operation awaiting the hint submits *)
(* no contract call.                                                       *)
(***************************************************************************)
C7_FailedReadRejectsWithoutFallback ==
    reads.failed # "" =>
        /\ resolver.state = "rejected"
        /\ resolver.hint = ""
        /\ opState.state = "rejected"
        /\ tx = <<>>

C7_Witness ==
    /\ reads.failed = "findInsertPosition"
    /\ Len(calls) = 3
    /\ operation.name = "openTrove"
    /\ opState.state = "rejected"
    /\ tx = <<>>

(***************************************************************************)
(* C8: with hinting enabled and an empty list or an infinite target ratio, *)
(* the resolver returns the null address as soon as the list size is known *)
(* and never calls getApproxHint or findInsertPosition; with hinting       *)
(* disabled it returns the address it was given and reads nothing remote.  *)
(***************************************************************************)
C8_DegenerateCasesSkipSampling ==
    /\ (/\ useHint
        /\ reads.count # <<>>
        /\ (reads.count[1] = 0 \/ resolver.collateralRatio = INFINITY))
       => /\ resolver.state = "returned"
          /\ resolver.hint = AddressZero
          /\ calls = <<[fn |-> "getCDPOwnersCount"]>>
    /\ (useHint /\ resolver.state # "notCalled" /\ resolver.collateralRatio = INFINITY)
       => \A i \in 1..Len(calls) : calls[i].fn \notin HintLookups
    /\ (~useHint /\ resolver.state # "notCalled")
       => /\ resolver.state = "returned"
          /\ resolver.hint = resolver.address
          /\ calls = <<>>

\* An infinite ratio against a list of 100 positions: the null address.
C8_Witness ==
    /\ useHint
    /\ resolver.collateralRatio = INFINITY
    /\ reads.count = <<100>>
    /\ resolver.state = "returned"
    /\ resolver.hint = AddressZero
    /\ Len(calls) = 1

(***************************************************************************)
(* C9: with hinting enabled, N >= 1 and a finite ratio, a resolution that  *)
(* returns has called getCDPOwnersCount, then getApproxHint once with the  *)
(* ratio, then findInsertPosition once with the same ratio and the         *)
(* approximate hint as both seeds, and returns the first address of the    *)
(* pair; the calls made so far are always a prefix of that order.          *)
(***************************************************************************)
C9_CallOrder ==
    /\ Len(calls) <= 3
    /\ Len(calls) >= 1 => calls[1].fn = "getCDPOwnersCount"
    /\ Len(calls) >= 2 =>
          /\ reads.count # <<>>
          /\ calls[2].fn = "getApproxHint"
          /\ calls[2].collateralRatio = resolver.collateralRatio
    /\ Len(calls) >= 3 =>
          /\ reads.approxHint # <<>>
          /\ calls[3] = [fn |-> "findInsertPosition",
                         collateralRatio |-> resolver.collateralRatio,
                         price |-> operation.price,
                         prevId |-> reads.approxHint[1],
                         nextId |-> reads.approxHint[1]]
    /\ (/\ useHint
        /\ resolver.state = "returned"
        /\ reads.count # <<>>
        /\ reads.count[1] >= 1
        /\ resolver.collateralRatio # INFINITY)
       => /\ Len(calls) = 3
          /\ reads.pair # <<>>
          /\ resolver.hint = reads.pair[1]

C9_Witness ==
    /\ useHint
    /\ resolver.state = "returned"
    /\ reads.count = <<5>>
    /\ resolver.collateralRatio = 2 * DIGITS
    /\ Len(calls) = 3
    /\ calls[3].prevId = "0xA"
    /\ calls[3].nextId = "0xA"
    /\ reads.pair = <<"0xB", AddressZero>>
    /\ resolver.hint = "0xB"
    /\ opState.state = "submitted"

(***************************************************************************)
(* C10 as stated: with N = 100, 10 trials and the target ratio between two *)
(* sampled neighbours, the resolver returns without any findInsertPosition *)
(* call.                                                                   *)
(***************************************************************************)
C10_NoRefinementBetweenSampledNeighbours ==
    (/\ resolver.state = "returned"
     /\ reads.count = <<100>>
     /\ CallsOf("getApproxHint") # {}
     /\ \A i \in CallsOf("getApproxHint") : calls[i].numberOfTrials = 10
     /\ reads.between)
    => CallsOf("findInsertPosition") = {}

(***************************************************************************)
(* C10 amended: with N = 100 and a finite ratio, getApproxHint is asked    *)
(* for 10 trials, and whether or not the target ratio lies between two     *)
(* sampled neighbours the resolver makes exactly one findInsertPosition    *)
(* call, seeded with the approximate hint, and returns the first address   *)
(* of the pair that call yields.                                           *)
(***************************************************************************)
C10_AlwaysRefinesOnce ==
    (/\ resolver.state = "returned"
     /\ reads.count = <<100>>
     /\ resolver.collateralRatio # INFINITY)
    => /\ Cardinality(CallsOf("getApproxHint")) = 1
       /\ \A i \in CallsOf("getApproxHint") : calls[i].numberOfTrials = 10
       /\ Cardinality(CallsOf("findInsertPosition")) = 1
       /\ \A i \in CallsOf("findInsertPosition") : calls[i].prevId = reads.approxHint[1]
       /\ resolver.hint = reads.pair[1]

C10_Witness ==
    /\ resolver.state = "returned"
    /\ reads.count = <<100>>
    /\ reads.between
    /\ calls[2].numberOfTrials = 10
    /\ calls[3].fn = "findInsertPosition"
    /\ resolver.hint = reads.pair[1]

(***************************************************************************)
(* C11: for every list size N >= 1 and finite target ratio, the number of  *)
(* trials passed to getApproxHint is ceil(sqrt(N)): the least integer k    *)
(* with k * k >= N.                                                        *)
(***************************************************************************)
C11_TrialsAreCeilSqrt ==
    \A i \in CallsOf("getApproxHint") :
        LET N == reads.count[1]
            k == calls[i].numberOfTrials
        IN /\ N >= 1
           /\ ~Decimal_infinite(calls[i].collateralRatio)
           /\ k * k >= N
           /\ \A j \in 0..(k - 1) : j * j < N

\* N = 101 is not a perfect square: 11 trials; the operation then completes.
C11_Witness ==
    /\ reads.count = <<101>>
    /\ \E i \in CallsOf("getApproxHint") : calls[i].numberOfTrials = 11
    /\ opState.state = "submitted"

(***************************************************************************)
(* SpecWatch: a watch* method, the events its listeners receive, the       *)
(* debounce timer, the re-fetches and the unsubscribe function.            *)
(***************************************************************************)
\* An event whose blockNumber is undefined.
Undefined == -1

\* The events of one run, and the block numbers they carry.
MaxEvents == 3

MaxBlock == 2

MaxUnsubscribe == 2

\* A registration on(filter, listener) on a contract.  wrapped: the listener
\* is one that calls the debounced listener only for a matching toAddress.
Registration(contract, filter, wrapped) ==
    [contract |-> contract, filter |-> filter, wrapped |-> wrapped]

\* The registrations each watch* method makes with on().
Registrations(kind) ==
    CASE kind = "watchTotalRedistributed" ->
            {Registration("activePool", "EtherSent()", TRUE)}
      [] kind = "watchTroveWithoutRewards" ->
            {Registration("cdpManager", "CDPCreated(address)", FALSE),
             Registration("cdpManager", "CDPUpdated(address)", FALSE)}
      [] kind = "watchNumberOfTroves" ->
            {Registration("cdpManager", "CDPUpdated()", FALSE)}
      [] kind = "watchPrice" ->
            {Registration("priceFeed", "PriceUpdated()", FALSE)}
      [] kind = "watchTotal" ->
            {Registration("cdpManager", "CDPUpdated()", FALSE)}
      [] kind = "watchStabilityDeposit" ->
            {Registration("poolManager", "UserDepositChanged(address)", FALSE),
             Registration("activePool", "EtherSent()", TRUE)}
      [] kind = "watchQuiInStabilityPool" ->
            {Registration("clvToken", "Transfer(stabilityPool)", FALSE),
             Registration("clvToken", "Transfer(null, stabilityPool)", FALSE)}
      [] kind = "watchQuiBalance" ->
            {Registration("clvToken", "Transfer(address)", FALSE),
             Registration("clvToken", "Transfer(null, address)", FALSE)}

Removals_withoutWrapped(kind) == {r \in Registrations(kind) : ~r.wrapped}

\* The registrations each unsubscribe function removes with removeListener().
Removals(kind) == Registrations(kind)

WatchKinds ==
    {"watchTotalRedistributed", "watchTroveWithoutRewards", "watchNumberOfTroves",
     "watchPrice", "watchTotal", "watchStabilityDeposit", "watchQuiInStabilityPool",
     "watchQuiBalance"}

debounce_latestBlock_lastEvent(current, blockNumber) ==
    IF blockNumber # Undefined THEN blockNumber ELSE current

\* if (event.blockNumber !== undefined && event.blockNumber > latestBlock)
debounce_latestBlock(current, blockNumber) ==
    IF blockNumber # Undefined /\ blockNumber > current THEN blockNumber ELSE current

debounce_timers_notCleared(pending, id, newId) == pending \cup {newId}

\* if (timeoutId !== undefined) clearTimeout(timeoutId); timeoutId = setTimeout(...)
debounce_timers(pending, id, newId) ==
    (IF id # <<>> THEN pending \ {id[1]} ELSE pending) \cup {newId}

\* The call of a watch* method.
Watch(kind) ==
    /\ watching = "none"
    /\ watching' = kind
    /\ registered' = registered \cup Registrations(kind)
    /\ UNCHANGED <<unsubscribeCalls, timeoutId, timers, latestBlock, fetches, delivered,
                   events, burst, seenBlocks, valueVars, hintVars, chainVars, transactVars, baseVars>>

\* A contract emits an event matching a registered filter.  qualifies: the
\* event's toAddress is the one a wrapped listener looks for.
Event(registration, blockNumber, qualifies) ==
    /\ registration \in registered
    /\ events < MaxEvents
    /\ events' = events + 1
    /\ IF registration.wrapped /\ ~qualifies
       THEN UNCHANGED <<timeoutId, timers, latestBlock, burst, seenBlocks>>
       ELSE /\ latestBlock' = debounce_latestBlock(latestBlock, blockNumber)
            /\ timers' = debounce_timers(timers, timeoutId, events')
            /\ timeoutId' = <<events'>>
            /\ burst' = [len |-> burst.len + 1,
                         blocks |-> burst.blocks \cup ({blockNumber} \ {Undefined})]
            /\ seenBlocks' = seenBlocks \cup ({blockNumber} \ {Undefined})
    /\ UNCHANGED <<watching, registered, unsubscribeCalls, fetches, delivered,
                   valueVars, hintVars, chainVars, transactVars, baseVars>>

\* The timer fires after debouncingDelayMs: listener(latestBlock) issues the
\* re-fetch at blockTag latestBlock, then timeoutId = undefined.
TimerFires(id) ==
    /\ id \in timers
    /\ timers' = timers \ {id}
    /\ fetches' = Append(fetches,
                         [blockTag |-> latestBlock, status |-> "pending",
                          burst |-> burst, seenBlocks |-> seenBlocks,
                          afterUnsubscribe |-> unsubscribeCalls > 0,
                          unhandled |-> FALSE])
    /\ timeoutId' = <<>>
    /\ burst' = NoBurst
    /\ UNCHANGED <<watching, registered, unsubscribeCalls, latestBlock, delivered,
                   events, seenBlocks, valueVars, hintVars, chainVars, transactVars, baseVars>>

\* The remote read of re-fetch i succeeds: then() invokes the callback.
FetchResolves(i) ==
    /\ fetches[i].status = "pending"
    /\ fetches' = [fetches EXCEPT ![i].status = "resolved"]
    /\ delivered' = Append(delivered, i)
    /\ UNCHANGED <<watching, registered, unsubscribeCalls, timeoutId, timers, latestBlock,
                   events, burst, seenBlocks, valueVars, hintVars, chainVars, transactVars, baseVars>>

\* The remote read of re-fetch i fails: then(callback) has no rejection
\* handler and nothing is chained to it, so the callback is skipped and the
\* promise that then() returned is rejected with no handler attached.
FetchRejects(i) ==
    /\ fetches[i].status = "pending"
    /\ fetches' = [fetches EXCEPT ![i].status = "rejected", ![i].unhandled = TRUE]
    /\ UNCHANGED <<watching, registered, unsubscribeCalls, timeoutId, timers, latestBlock,
                   delivered, events, burst, seenBlocks, valueVars, hintVars, chainVars, transactVars, baseVars>>

\* The function that the watch* method returned is called.
Unsubscribe ==
    /\ watching # "none"
    /\ unsubscribeCalls < MaxUnsubscribe
    /\ unsubscribeCalls' = unsubscribeCalls + 1
    /\ registered' = registered \ Removals(watching)
    /\ UNCHANGED <<watching, timeoutId, timers, latestBlock, fetches, delivered,
                   events, burst, seenBlocks, valueVars, hintVars, chainVars, transactVars, baseVars>>

BlockNumbers == (1..MaxBlock) \cup {Undefined}

InitWatch ==
    /\ WatchIdle
    /\ ValuesIdle
    /\ userAddress = "0xUser"
    /\ useHint = TRUE
    /\ HintIdle
    /\ ChainIdle
    /\ TransactIdle
    /\ BaseIdle

NextWatch ==
    \/ \E kind \in WatchKinds : Watch(kind)
    \/ \E r \in registered, b \in BlockNumbers, q \in BOOLEAN :
          (r.wrapped \/ q) /\ Event(r, b, q)
    \/ \E id \in timers : TimerFires(id)
    \/ \E i \in 1..Len(fetches) : FetchResolves(i)
    \/ \E i \in 1..Len(fetches) : FetchRejects(i)
    \/ Unsubscribe

SpecWatch == InitWatch /\ [][NextWatch]_vars

SetMax(S) == CHOOSE x \in S : \A y \in S : y <= x

(***************************************************************************)
(* C1: once unsubscribe has been called, a debounce timer that was pending *)
(* never fires: no re-fetch is issued after unsubscribe.                   *)
(***************************************************************************)
C1_UnsubscribeCancelsPendingFetch ==
    \A i \in 1..Len(fetches) : ~fetches[i].afterUnsubscribe

(***************************************************************************)
(* C2 as stated: the blockTag of the one re-fetch of a burst is the        *)
(* highest block number among the events of that burst.                    *)
(***************************************************************************)
C2_BlockTagIsHighestOfBurst ==
    \A i \in 1..Len(fetches) :
        /\ fetches[i].burst.len >= 1
        /\ fetches[i].burst.blocks # {} =>
              fetches[i].blockTag = SetMax(fetches[i].burst.blocks)

(***************************************************************************)
(* C2 amended: every burst of k >= 1 events leads to exactly one re-fetch  *)
(* and, when it succeeds, to exactly one callback; the re-fetch's blockTag *)
(* is the highest block number among all events the watcher has received   *)
(* so far (0 when none carried one), which is the burst's highest only     *)
(* when no earlier event carried a higher one.                             *)
(***************************************************************************)
C2_OneFetchPerBurstAtHighestBlockSeen ==
    /\ Cardinality(timers) <= 1
    /\ (timers # {}) <=> (burst.len >= 1)
    /\ \A i \in 1..Len(fetches) :
          /\ fetches[i].burst.len >= 1
          /\ fetches[i].blockTag = SetMax(fetches[i].seenBlocks \cup {0})
          /\ fetches[i].burst.blocks \subseteq fetches[i].seenBlocks
          /\ fetches[i].status = "resolved" <=> (\E j \in 1..Len(delivered) : delivered[j] = i)
    /\ \A j, k \in 1..Len(delivered) : delivered[j] = delivered[k] => j = k

\* A burst of three events at blocks 1, 2, 1: one re-fetch at block 2, one callback.
C2_Witness ==
    /\ events = 3
    /\ Len(fetches) = 1
    /\ fetches[1].burst = [len |-> 3, blocks |-> {1, 2}]
    /\ fetches[1].blockTag = 2
    /\ delivered = <<1>>
    /\ timers = {}

(***************************************************************************)
(* C12: for every watch* method, once its unsubscribe function has been    *)
(* called every (filter, listener) pair the watch call registered is       *)
(* removed, so the listener sets are those before the watch call and no    *)
(* later event starts a timer; a second or further call of unsubscribe     *)
(* changes nothing.                                                        *)
(***************************************************************************)
C12_UnsubscribeDetachesAllListeners ==
    /\ [](unsubscribeCalls >= 1 =>
            /\ registered \cap Registrations(watching) = {}
            /\ registered = {})
    /\ [][unsubscribeCalls >= 1 =>
            /\ timers' \subseteq timers
            /\ unsubscribeCalls' # unsubscribeCalls =>
                  UNCHANGED <<watching, registered, timeoutId, timers, latestBlock,
                              fetches, delivered, events, burst, seenBlocks>>]_vars

\* watchStabilityDeposit registered two listeners on two contracts, one of them
\* has received an event, and unsubscribe has been called twice.
C12_Witness ==
    /\ watching = "watchStabilityDeposit"
    /\ events >= 1
    /\ unsubscribeCalls = 2
    /\ registered = {}

(***************************************************************************)
(* C13: when a watcher's re-fetch fails, the failure is handled (it is not *)
(* left as an unhandled rejection), the callback is not invoked for that   *)
(* re-fetch and the watcher's listeners stay registered.                   *)
(***************************************************************************)
C13_FailedFetchIsReported ==
    \A i \in 1..Len(fetches) :
        fetches[i].status = "rejected" =>
            /\ ~fetches[i].unhandled
            /\ \A j \in 1..Len(delivered) : delivered[j] # i
            /\ unsubscribeCalls = 0 => Registrations(watching) \subseteq registered

(***************************************************************************)
(* SpecGetTrove: one caller reads a position with getTrove while the       *)
(* remote ledger advances.  Each of the four reads is served by the node   *)
(* on its own, at the block named by blockTag or, without one, at the      *)
(* node's latest block when the read is served.                            *)
(***************************************************************************)
\* The blocks of one run.
MaxChain == 3

\* Collateral and debt redistributed per unit of stake by one liquidation.
RedistributionSamples == {<<DIGITS \div 2, DIGITS \div 2>>, <<DIGITS, DIGITS \div 2>>}

\* A liquidation is mined: both accumulators grow, no position is touched.
Liquidation(eth, debt) ==
    /\ Len(chain) < MaxChain
    /\ chain' = Append(chain, [chain[Len(chain)] EXCEPT !.L_ETH = @ + eth,
                                                        !.L_CLVDebt = @ + debt])
    /\ UNCHANGED <<getTroveCall, observed, gotTrove, valueVars, hintVars, watchVars, transactVars, baseVars>>

\* An operation on the position is mined: the contract applies the pending
\* rewards to the stored position and refreshes its reward snapshot.
PositionTouched ==
    /\ Len(chain) < MaxChain
    /\ LET now == chain[Len(chain)]
           applied == applyRewards(getTroveWithoutRewards(now.cdp, now.snapshot),
                                   Trove(now.L_ETH, now.L_CLVDebt))
       IN chain' = Append(chain, [now EXCEPT !.cdp.coll = applied.collateral,
                                             !.cdp.debt = applied.debt,
                                             !.snapshot = <<now.L_ETH, now.L_CLVDebt>>])
    /\ UNCHANGED <<getTroveCall, observed, gotTrove, valueVars, hintVars, watchVars, transactVars, baseVars>>

\* getTrove(address, overrides): the four reads are issued, none is served yet.
GetTrove(blockTag) ==
    /\ getTroveCall.state # "pending"
    /\ blockTag = Latest \/ blockTag \in 1..Len(chain)
    /\ getTroveCall' = [state |-> "pending", blockTag |-> blockTag]
    /\ observed' = [r \in ReadNames |-> <<>>]
    /\ UNCHANGED <<chain, gotTrove, valueVars, hintVars, watchVars, transactVars, baseVars>>

\* The node serves read r: { ...overrides } carries the caller's blockTag or none.
ReadServed(r) ==
    /\ getTroveCall.state = "pending"
    /\ observed[r] = <<>>
    /\ observed' = [observed EXCEPT ![r] =
                        <<IF getTroveCall.blockTag = Latest THEN Len(chain)
                          ELSE getTroveCall.blockTag>>]
    /\ UNCHANGED <<chain, getTroveCall, gotTrove, valueVars, hintVars, watchVars, transactVars, baseVars>>

\* Both Promise.all have settled: trove.applyRewards(totalRedistributed).
GetTroveReturns ==
    /\ getTroveCall.state = "pending"
    /\ \A r \in ReadNames : observed[r] # <<>>
    /\ LET withoutRewards ==
               getTroveWithoutRewards(chain[observed["CDPs"][1]].cdp,
                                      chain[observed["rewardSnapshots"][1]].snapshot)
           totalRedistributed ==
               Trove(chain[observed["L_ETH"][1]].L_ETH,
                     chain[observed["L_CLVDebt"][1]].L_CLVDebt)
       IN gotTrove' = applyRewards(withoutRewards, totalRedistributed)
    /\ getTroveCall' = [getTroveCall EXCEPT !.state = "returned"]
    /\ UNCHANGED <<chain, observed, valueVars, hintVars, watchVars, transactVars, baseVars>>

InitGetTrove ==
    /\ ChainIdle
    /\ ValuesIdle
    /\ userAddress = "0xUser"
    /\ useHint = TRUE
    /\ HintIdle
    /\ WatchIdle
    /\ TransactIdle
    /\ BaseIdle

NextGetTrove ==
    \/ \E x \in RedistributionSamples : Liquidation(x[1], x[2])
    \/ PositionTouched
    \/ \E b \in {Latest} \cup (1..MaxChain) : GetTrove(b)
    \/ \E r \in ReadNames : ReadServed(r)
    \/ GetTroveReturns

SpecGetTrove == InitGetTrove /\ [][NextGetTrove]_vars

\* The position's true state at block b: its stored record with the rewards
\* pending at that block.
TrueTroveAt(b) ==
    applyRewards(getTroveWithoutRewards(chain[b].cdp, chain[b].snapshot),
                 Trove(chain[b].L_ETH, chain[b].L_CLVDebt))

(***************************************************************************)
(* C14: getTrove called without a blockTag combines a position record and  *)
(* accumulators that were all observed at the same remote block, so the    *)
(* Trove it returns is the position's true state at some single block.     *)
(***************************************************************************)
C14_GetTroveReadsOneBlock ==
    getTroveCall.state = "returned" /\ getTroveCall.blockTag = Latest =>
        /\ \A r1, r2 \in ReadNames : observed[r1] = observed[r2]
        /\ \E b \in 1..Len(chain) : gotTrove = TrueTroveAt(b)

(***************************************************************************)
(* C15: for every Trove t and price, t.collateralRatio(price) returns      *)
(* (it raises no error); the value is the infinite sentinel if and only if *)
(* t.debt is zero, the empty Trove included, and is otherwise              *)
(* collateral * price / debt.                                              *)
(***************************************************************************)
C15_RatioInfiniteIffZeroDebt ==
    last.op = "collateralRatio" =>
        /\ ~last.threw
        /\ (last.result = INFINITY) <=> (last.this.debt = 0)
        /\ last.this.debt # 0 =>
              last.result = (last.this.collateral * last.price) \div last.this.debt

\* The empty Trove: zero collateral over zero debt is the sentinel, not an error.
C15_Witness ==
    /\ last.op = "collateralRatio"
    /\ last.this.collateral = 0
    /\ last.this.debt = 0
    /\ last.price > 0
    /\ ~last.threw
    /\ last.result = INFINITY

(***************************************************************************)
(* C16: StabilityDeposit.apply(difference) returns a deposit of size       *)
(* depositAfterLoss + |difference| for a positive difference and of size   *)
(* max(0, depositAfterLoss - |difference|) for a negative one, computed    *)
(* from depositAfterLoss and not from the raw deposit, with zero pending   *)
(* gain and zero pending loss.                                             *)
(***************************************************************************)
C16_ApplyReplaysOntoDepositAfterLoss ==
    last.op = "StabilityDeposit.apply" /\ last.difference.sign \in {"+", "-"} =>
        LET afterLoss == last.this.deposit - last.this.pendingDepositLoss
            m == last.difference.absoluteValue
        IN /\ last.difference.sign = "+" => sdep.deposit = afterLoss + m
           /\ last.difference.sign = "-" =>
                 sdep.deposit = (IF afterLoss - m > 0 THEN afterLoss - m ELSE 0)
           /\ sdep.deposit >= 0
           /\ sdep.pendingCollateralGain = 0
           /\ sdep.pendingDepositLoss = 0

\* A deposit with a pending loss and a pending gain is reduced by less than
\* what the loss has left of it.
C16_Witness ==
    /\ last.op = "StabilityDeposit.apply"
    /\ last.difference.sign = "-"
    /\ last.this.pendingDepositLoss > 0
    /\ last.this.pendingCollateralGain > 0
    /\ last.difference.absoluteValue < last.this.deposit - last.this.pendingDepositLoss
    /\ sdep.deposit = last.this.deposit - last.this.pendingDepositLoss
                          - last.difference.absoluteValue

(***************************************************************************)
(* SpecChange: a caller computes the change between two Troves and applies *)
(* Differences to the Trove and to the StabilityDeposit it holds.          *)
(***************************************************************************)
\* The largest whole amount a held Trove or deposit is changed to.
MaxApplied == 2

ChangeAmounts == {0, 1, DIGITS}

\* A zero Difference, an absent one, and signed ones.
OptionalDifferences ==
    {Difference("", 0), Undefined_Difference} \cup
    {Difference(sign, a) : sign \in {"+", "-"}, a \in {DIGITS \div 2, DIGITS}}

ChangeCDPs ==
    {[status |-> "active", coll |-> DIGITS, debt |-> 1, stake |-> DIGITS],
     [status |-> "closed", coll |-> 0, debt |-> 0, stake |-> 0]}

\* A held Trove stays within MaxApplied whole units in both fields.
WithinMaxApplied(t) ==
    /\ t.collateral \in (0 - MaxApplied * DIGITS)..(MaxApplied * DIGITS)
    /\ t.debt \in (0 - MaxApplied * DIGITS)..(MaxApplied * DIGITS)

WhatChanged(that) ==
    /\ last' = [op |-> "whatChanged", this |-> trove, that |-> that, threw |-> FALSE,
                result |-> Trove_whatChanged(trove, that)]
    /\ UNCHANGED <<trove, sdep, hintVars, watchVars, chainVars, transactVars, baseVars>>

ApplyCollateralDifference(collateralDifference) ==
    /\ WithinMaxApplied(Trove_applyCollateralDifference(trove, collateralDifference))
    /\ trove' = Trove_applyCollateralDifference(trove, collateralDifference)
    /\ last' = [op |-> "applyCollateralDifference", this |-> trove,
                difference |-> collateralDifference, threw |-> FALSE, result |-> trove']
    /\ UNCHANGED <<sdep, hintVars, watchVars, chainVars, transactVars, baseVars>>

ApplyDebtDifference(debtDifference) ==
    /\ WithinMaxApplied(Trove_applyDebtDifference(trove, debtDifference))
    /\ trove' = Trove_applyDebtDifference(trove, debtDifference)
    /\ last' = [op |-> "applyDebtDifference", this |-> trove,
                difference |-> debtDifference, threw |-> FALSE, result |-> trove']
    /\ UNCHANGED <<sdep, hintVars, watchVars, chainVars, transactVars, baseVars>>

Apply(change) ==
    /\ WithinMaxApplied(Trove_apply(trove, change))
    /\ trove' = Trove_apply(trove, change)
    /\ last' = [op |-> "apply", this |-> trove, change |-> change, threw |-> FALSE,
                result |-> trove']
    /\ UNCHANGED <<sdep, hintVars, watchVars, chainVars, transactVars, baseVars>>

\* The TroveChanges a caller applies: written by hand, or the one that
\* whatChanged has just returned.
AppliedChanges ==
    {[collateralDifference |-> c, debtDifference |-> d] :
        c \in {Difference("", 0), Undefined_Difference, Difference("-", DIGITS \div 2)},
        d \in {Difference("", 0), Undefined_Difference, Difference("-", DIGITS \div 2)}}
    \cup (IF last.op = "whatChanged" THEN {last.result} ELSE {})

NextChange ==
    \/ \E c, d \in ChangeAmounts : NewTrove(c, d)
    \/ \E cdp \in ChangeCDPs : GetTroveWithoutRewards(cdp, <<0, 0>>)
    \/ \E c, d \in ChangeAmounts : WhatChanged(Trove(c, d))
    \/ \E diff \in OptionalDifferences : ApplyCollateralDifference(diff)
    \/ \E diff \in OptionalDifferences : ApplyDebtDifference(diff)
    \/ \E change \in AppliedChanges : Apply(change)
    \/ \E d \in {0, DIGITS}, g \in {0, 1}, l \in {0, 1} : NewStabilityDeposit(d, g, l)
    \/ \E diff \in OptionalDifferences :
          /\ depositAfterLoss(sdep) + diff.absoluteValue <= MaxApplied * DIGITS
          /\ ApplyToStabilityDeposit(diff)

SpecChange == InitValues /\ [][NextChange]_vars

NoDifference(difference) == ~Difference_positive(difference) /\ ~Difference_negative(difference)

(***************************************************************************)
(* C17 as stated: applying a zero Difference, or no difference at all, to  *)
(* a Trove (applyCollateralDifference, applyDebtDifference, apply) or to a *)
(* StabilityDeposit (apply) returns an entity equal to the receiver in     *)
(* every field.                                                            *)
(***************************************************************************)
C17_ZeroOrNoDifferenceReturnsEqual ==
    /\ (/\ last.op \in {"applyCollateralDifference", "applyDebtDifference",
                         "StabilityDeposit.apply"}
        /\ NoDifference(last.difference))
       => (~last.threw /\ last.result = last.this)
    /\ (/\ last.op = "apply"
        /\ NoDifference(last.change.collateralDifference)
        /\ NoDifference(last.change.debtDifference))
       => (~last.threw /\ last.result = last.this)

(***************************************************************************)
(* C17 amended: applying a zero Difference to a Trove or a StabilityDeposit *)
(* returns an entity equal to the receiver in every field, and so does     *)
(* applying no difference at all to a Trove; StabilityDeposit.apply called *)
(* with no Difference raises an error and returns nothing.                 *)
(***************************************************************************)
C17_ZeroDifferenceReturnsEqual ==
    /\ (/\ last.op \in {"applyCollateralDifference", "applyDebtDifference"}
        /\ NoDifference(last.difference))
       => (~last.threw /\ last.result = last.this /\ trove = last.this)
    /\ (/\ last.op = "apply"
        /\ NoDifference(last.change.collateralDifference)
        /\ NoDifference(last.change.debtDifference))
       => (~last.threw /\ last.result = last.this /\ trove = last.this)
    /\ (last.op = "StabilityDeposit.apply" /\ last.difference = Difference("", 0))
       => (~last.threw /\ last.result = last.this /\ sdep = last.this)
    /\ (last.op = "StabilityDeposit.apply" /\ last.difference = Undefined_Difference)
       => last.threw

\* A position with stake and unapplied rewards keeps its class, stake and
\* snapshot under a change of a zero and an absent Difference.
C17_Witness ==
    /\ last.op = "apply"
    /\ last.this.cls = "TroveWithPendingRewards"
    /\ last.this.stake > 0
    /\ last.change.collateralDifference = Difference("", 0)
    /\ last.change.debtDifference = Undefined_Difference
    /\ trove = last.this

(***************************************************************************)
(* C18: for all Troves a and b with non-negative collateral and debt,      *)
(* a.apply(a.whatChanged(b)) equals b in collateral and in debt.           *)
(***************************************************************************)
C18_ApplyWhatChangedRecovers ==
    \A c, d \in ChangeAmounts :
        (/\ last.op = "apply"
         /\ last.this.collateral >= 0
         /\ last.this.debt >= 0
         /\ last.change = Trove_whatChanged(last.this, Trove(c, d)))
        => (last.result.collateral = c /\ last.result.debt = d)

(***************************************************************************)
(* C19: applyCollateralDifference (applyDebtDifference) with a negative    *)
(* difference of magnitude m returns a Trove whose collateral (debt) is    *)
(* max(0, current - m) and whose other field is unchanged; for a Trove     *)
(* with non-negative fields, apply yields no negative collateral or debt.  *)
(***************************************************************************)
C19_NegativeDifferenceClampsAtZero ==
    LET m == last.difference.absoluteValue
        clamp(x) == IF x > 0 THEN x ELSE 0
    IN /\ (/\ last.op = "applyCollateralDifference"
           /\ Difference_negative(last.difference)
           /\ last.this.collateral >= 0 /\ last.this.debt >= 0)
          => /\ last.result.collateral = clamp(last.this.collateral - m)
             /\ last.result.debt = last.this.debt
       /\ (/\ last.op = "applyDebtDifference"
           /\ Difference_negative(last.difference)
           /\ last.this.collateral >= 0 /\ last.this.debt >= 0)
          => /\ last.result.debt = clamp(last.this.debt - m)
             /\ last.result.collateral = last.this.collateral
       /\ (/\ last.op = "apply"
           /\ last.this.collateral >= 0 /\ last.this.debt >= 0)
          => (last.result.collateral >= 0 /\ last.result.debt >= 0)

(***************************************************************************)
(* C20: for one watcher the callback is invoked with the re-fetched values *)
(* in the order the re-fetches were issued: a re-fetch issued earlier (at  *)
(* a blockTag no higher) is never delivered after one issued later,        *)
(* whatever order the remote reads complete in, so the value delivered     *)
(* last is the freshest one fetched.                                       *)
(***************************************************************************)
C20_DeliveryInIssueOrder ==
    \A j, k \in 1..Len(delivered) :
        (/\ j < k
         /\ fetches[delivered[k]].blockTag <= fetches[delivered[j]].blockTag)
        => delivered[j] <= delivered[k]

(***************************************************************************)
(* C21: the blockTag of every re-fetch a watcher issues is the highest     *)
(* block number over all events its debounced listener has received since  *)
(* it was created, across debounce windows (0 when none carried a block    *)
(* number); so the blockTags of successive re-fetches never decrease and a *)
(* re-fetch is at a block no lower than that of the events triggering it.  *)
(***************************************************************************)
C21_BlockTagIsHighestBlockEverSeen ==
    \A i \in 1..Len(fetches) :
        /\ fetches[i].blockTag = SetMax(fetches[i].seenBlocks \cup {0})
        /\ \A j \in 1..(i - 1) : fetches[j].blockTag <= fetches[i].blockTag
        /\ \A b \in fetches[i].burst.blocks : b <= fetches[i].blockTag

\* Two debounce windows: an event at block 2, its re-fetch, then an event at
\* block 1, whose re-fetch is again at block 2.
C21_Witness ==
    /\ Len(fetches) = 2
    /\ fetches[1].burst.blocks = {2}
    /\ fetches[1].blockTag = 2
    /\ fetches[2].burst.blocks = {1}
    /\ fetches[2].seenBlocks = {1, 2}
    /\ fetches[2].blockTag = 2

(***************************************************************************)
(* SpecTransact: one method of a class built by sendableFrom or by         *)
(* transactableFrom is called; the populatable's method, the populated     *)
(* transaction's send() and the sent transaction's waitForReceipt()        *)
(* resolve or reject.                                                      *)
(***************************************************************************)
\* The methods of TransactableLiquity, which proxify generates wrappers for.
TransactableMethods ==
    {"openTrove", "closeTrove", "depositCollateral", "withdrawCollateral", "borrowLUSD",
     "repayLUSD", "adjustTrove", "setPrice", "liquidate", "liquidateUpTo",
     "depositLUSDInStabilityPool", "withdrawLUSDFromStabilityPool",
     "withdrawGainsFromStabilityPool", "transferCollateralGainToTrove", "sendLUSD",
     "sendLQTY", "redeemLUSD", "stakeLQTY", "unstakeLQTY", "withdrawGainsFromStaking"}

GeneratedClasses == {"Sendable", "Transactable"}

\* MinedReceipt: FailedReceipt | SuccessfulReceipt
MinedStatuses == {"succeeded", "failed"}

Stage(name, outcome) == [name |-> name, outcome |-> outcome]

\* The stage whose promise the method is awaiting.
awaited(name) ==
    /\ txCall.state = "pending"
    /\ stages # <<>>
    /\ stages[Len(stages)] = Stage(name, "pending")

\* The stages so far with the awaited one settled.
settled(outcome) == [stages EXCEPT ![Len(stages)].outcome = outcome]

\* An await throws: the async method rejects with the stage's error.
throws(error) == txCall' = [txCall EXCEPT !.state = "threw", !.error = error]

\* A generated method is called: it calls the wrapped object's method, which
\* for a Transactable is the Sendable's and so, first, the populatable's.
CallMethod(class, method) ==
    /\ txCall.state # "pending"
    /\ txCall' = [class |-> class, method |-> method, state |-> "pending", error |-> "",
                  result |-> "none"]
    /\ stages' = <<Stage("populate", "pending")>>
    /\ receipt' = <<>>
    /\ UNCHANGED <<valueVars, hintVars, watchVars, chainVars, baseVars>>

\* (await this._populatable[method](...)).send()
PopulateResolves ==
    /\ awaited("populate")
    /\ stages' = Append(settled("resolved"), Stage("send", "pending"))
    /\ UNCHANGED <<txCall, receipt, valueVars, hintVars, watchVars, chainVars, baseVars>>

PopulateRejects ==
    /\ awaited("populate")
    /\ stages' = settled("rejected")
    /\ throws("populate failed")
    /\ UNCHANGED <<receipt, valueVars, hintVars, watchVars, chainVars, baseVars>>

\* send() resolves: the Sendable's method returns the sent transaction; the
\* Transactable's goes on with tx.waitForReceipt().
SendResolves ==
    /\ awaited("send")
    /\ IF txCall.class = "Sendable"
       THEN /\ stages' = settled("resolved")
            /\ txCall' = [txCall EXCEPT !.state = "returned", !.result = "sentTransaction"]
       ELSE /\ stages' = Append(settled("resolved"), Stage("waitForReceipt", "pending"))
            /\ UNCHANGED txCall
    /\ UNCHANGED <<receipt, valueVars, hintVars, watchVars, chainVars, baseVars>>

SendRejects ==
    /\ awaited("send")
    /\ stages' = settled("rejected")
    /\ throws("send failed")
    /\ UNCHANGED <<receipt, valueVars, hintVars, watchVars, chainVars, baseVars>>

\* What a successful receipt of the method carries as details.
detailsOf(method) == <<"details", method>>

ReceiptMined_returnsAlways(status) ==
    /\ awaited("waitForReceipt")
    /\ stages' = settled("resolved")
    /\ receipt' = <<[status |-> status,
                     details |-> IF status = "succeeded" THEN detailsOf(txCall.method)
                                 ELSE "undefined"]>>
    /\ txCall' = [txCall EXCEPT !.state = "returned", !.result = receipt'[1].details]
    /\ UNCHANGED <<valueVars, hintVars, watchVars, chainVars, baseVars>>

\* waitForReceipt() resolves with a mined receipt:
\* if (receipt.status !== "succeeded") throw new Error("Transaction failed")
ReceiptMined(status) ==
    /\ awaited("waitForReceipt")
    /\ stages' = settled("resolved")
    /\ receipt' = <<[status |-> status,
                     details |-> IF status = "succeeded" THEN detailsOf(txCall.method)
                                 ELSE "undefined"]>>
    /\ IF status # "succeeded"
       THEN throws("Transaction failed")
       ELSE txCall' = [txCall EXCEPT !.state = "returned", !.result = receipt'[1].details]
    /\ UNCHANGED <<valueVars, hintVars, watchVars, chainVars, baseVars>>

WaitForReceiptRejects ==
    /\ awaited("waitForReceipt")
    /\ stages' = settled("rejected")
    /\ throws("waitForReceipt failed")
    /\ UNCHANGED <<receipt, valueVars, hintVars, watchVars, chainVars, baseVars>>

InitTransact ==
    /\ TransactIdle
    /\ BaseIdle
    /\ ChainIdle
    /\ ValuesIdle
    /\ userAddress = "0xUser"
    /\ useHint = TRUE
    /\ HintIdle
    /\ WatchIdle

NextTransact ==
    \/ \E class \in GeneratedClasses, method \in TransactableMethods : CallMethod(class, method)
    \/ PopulateResolves
    \/ PopulateRejects
    \/ SendResolves
    \/ SendRejects
    \/ \E status \in MinedStatuses : ReceiptMined(status)
    \/ WaitForReceiptRejects

SpecTransact == InitTransact /\ [][NextTransact]_vars

StageOrder == <<"populate", "send", "waitForReceipt">>

(***************************************************************************)
(* C22: for every method of a class built by sendableFrom or               *)
(* transactableFrom the stages run in the order populate, send,            *)
(* waitForReceipt, send only after populate succeeded and waitForReceipt   *)
(* only after send succeeded; the transactable method returns the          *)
(* receipt's details if and only if the mined receipt's status is          *)
(* "succeeded" and throws "Transaction failed" when it is "failed".        *)
(***************************************************************************)
C22_StagesInOrderAndFailureThrows ==
    /\ Len(stages) <= 3
    /\ \A i \in 1..Len(stages) :
          /\ stages[i].name = StageOrder[i]
          /\ i > 1 => stages[i - 1].outcome = "resolved"
    /\ txCall.state = "pending" => (stages # <<>> /\ stages[Len(stages)].outcome = "pending")
    /\ txCall.class = "Sendable" =>
          /\ Len(stages) <= 2
          /\ txCall.state = "returned" <=>
                (Len(stages) = 2 /\ stages[2].outcome = "resolved")
    /\ txCall.class = "Transactable" =>
          /\ receipt # <<>> => (Len(stages) = 3 /\ stages[3].outcome = "resolved")
          /\ txCall.state = "returned" <=>
                (receipt # <<>> /\ receipt[1].status = "succeeded")
          /\ txCall.state = "returned" => txCall.result = receipt[1].details
          /\ (receipt # <<>> /\ receipt[1].status = "failed") =>
                (txCall.state = "threw" /\ txCall.error = "Transaction failed")

\* A transactable liquidate whose transaction was mined and failed.
C22_Witness ==
    /\ txCall.class = "Transactable"
    /\ txCall.method = "liquidate"
    /\ [i \in 1..Len(stages) |-> stages[i].name] = StageOrder
    /\ receipt # <<>>
    /\ receipt[1].status = "failed"
    /\ txCall.state = "threw"
    /\ txCall.error = "Transaction failed"

(***************************************************************************)
(* SpecLUSDDeposit: the StabilityDeposit of lib-base is constructed, asked *)
(* what changes it to a target amount, and has changes applied.  An        *)
(* optional value is <<>> when undefined and <<v>> when it is v.           *)
(***************************************************************************)
\* currentLUSD = initialLUSD by default
Base_currentLUSD(initialLUSD, currentLUSD) ==
    IF currentLUSD = <<>> THEN initialLUSD ELSE currentLUSD[1]

\* if (this.currentLUSD.gt(this.initialLUSD)) throw ...
Base_constructor_throws(initialLUSD, currentLUSD) ==
    Decimal_gt(Base_currentLUSD(initialLUSD, currentLUSD), initialLUSD)

Base_StabilityDeposit(initialLUSD, currentLUSD, collateralGain, lqtyReward) ==
    [initialLUSD |-> initialLUSD,
     currentLUSD |-> Base_currentLUSD(initialLUSD, currentLUSD),
     collateralGain |-> collateralGain,
     lqtyReward |-> lqtyReward]

\* StabilityDepositChange | undefined
Base_NoChange ==
    [defined |-> FALSE, depositLUSD |-> <<>>, withdrawLUSD |-> <<>>, withdrawAllLUSD |-> FALSE]

Base_Deposit(amount) ==
    [defined |-> TRUE, depositLUSD |-> <<amount>>, withdrawLUSD |-> <<>>,
     withdrawAllLUSD |-> FALSE]

Base_Withdrawal(amount, all) ==
    [defined |-> TRUE, depositLUSD |-> <<>>, withdrawLUSD |-> <<amount>>,
     withdrawAllLUSD |-> all]

Base_whatChanged(d, thatLUSD) ==
    IF Decimal_lt(thatLUSD, d.currentLUSD)
    THEN Base_Withdrawal(Decimal_sub(d.currentLUSD, thatLUSD), Decimal_isZero(thatLUSD))
    ELSE IF Decimal_gt(thatLUSD, d.currentLUSD)
    THEN Base_Deposit(Decimal_sub(thatLUSD, d.currentLUSD))
    ELSE Base_NoChange

Base_apply_unclamped(d, change) ==
    IF ~change.defined THEN d.currentLUSD
    ELSE IF change.withdrawLUSD # <<>>
    THEN Decimal_sub(d.currentLUSD, change.withdrawLUSD[1])
    ELSE Decimal_add(d.currentLUSD, change.depositLUSD[1])

Base_apply(d, change) ==
    IF ~change.defined THEN d.currentLUSD
    ELSE IF change.withdrawLUSD # <<>>
    THEN IF change.withdrawAllLUSD \/ Decimal_lte(d.currentLUSD, change.withdrawLUSD[1])
         THEN 0
         ELSE Decimal_sub(d.currentLUSD, change.withdrawLUSD[1])
    ELSE Decimal_add(d.currentLUSD, change.depositLUSD[1])

NewBaseStabilityDeposit(initialLUSD, currentLUSD, collateralGain, lqtyReward) ==
    /\ lusdDeposit' =
          IF Base_constructor_throws(initialLUSD, currentLUSD) THEN lusdDeposit
          ELSE Base_StabilityDeposit(initialLUSD, currentLUSD, collateralGain, lqtyReward)
    /\ lusdLast' = [op |-> "new StabilityDeposit", initialLUSD |-> initialLUSD,
                    currentLUSD |-> currentLUSD,
                    threw |-> Base_constructor_throws(initialLUSD, currentLUSD)]
    /\ UNCHANGED <<valueVars, hintVars, watchVars, chainVars, transactVars>>

BaseWhatChanged(thatLUSD) ==
    /\ lusdLast' = [op |-> "whatChanged", this |-> lusdDeposit, thatLUSD |-> thatLUSD,
                    threw |-> FALSE, result |-> Base_whatChanged(lusdDeposit, thatLUSD)]
    /\ UNCHANGED <<lusdDeposit, valueVars, hintVars, watchVars, chainVars, transactVars>>

\* apply returns an amount; the deposit it is called on stays as it is.
BaseApply(change) ==
    /\ lusdLast' = [op |-> "apply", this |-> lusdDeposit, change |-> change,
                    threw |-> FALSE, result |-> Base_apply(lusdDeposit, change)]
    /\ UNCHANGED <<lusdDeposit, valueVars, hintVars, watchVars, chainVars, transactVars>>

LUSDSamples == {0, 1, DIGITS, 2 * DIGITS}

\* The changes a caller applies: written by hand, or the one that
\* whatChanged has just returned.
BaseChanges ==
    {Base_NoChange}
    \cup {Base_Deposit(a) : a \in LUSDSamples}
    \cup {Base_Withdrawal(a, all) : a \in LUSDSamples, all \in BOOLEAN}
    \cup (IF lusdLast.op = "whatChanged" THEN {lusdLast.result} ELSE {})

InitLUSDDeposit ==
    /\ BaseIdle
    /\ TransactIdle
    /\ ChainIdle
    /\ ValuesIdle
    /\ userAddress = "0xUser"
    /\ useHint = TRUE
    /\ HintIdle
    /\ WatchIdle

NextLUSDDeposit ==
    \/ \E i \in LUSDSamples, c \in {<<>>} \cup {<<x>> : x \in LUSDSamples},
          g, r \in {0, DIGITS} : NewBaseStabilityDeposit(i, c, g, r)
    \/ \E x \in LUSDSamples : BaseWhatChanged(x)
    \/ \E change \in BaseChanges : BaseApply(change)

SpecLUSDDeposit == InitLUSDDeposit /\ [][NextLUSDDeposit]_vars

(***************************************************************************)
(* C23: every lib-base StabilityDeposit has currentLUSD <= initialLUSD,    *)
(* and constructing one with currentLUSD > initialLUSD throws; for every   *)
(* deposit d and non-negative target x, d.apply(d.whatChanged(x)) is x;    *)
(* whatChanged returns undefined exactly when x is currentLUSD; apply      *)
(* never returns a negative amount, and returns zero for a withdrawal of   *)
(* at least currentLUSD and for withdrawAllLUSD.                           *)
(***************************************************************************)
C23_ApplyWhatChangedReachesTarget ==
    /\ lusdDeposit.currentLUSD <= lusdDeposit.initialLUSD
    /\ lusdLast.op = "new StabilityDeposit" =>
          (lusdLast.threw <=>
              (lusdLast.currentLUSD # <<>> /\ lusdLast.currentLUSD[1] > lusdLast.initialLUSD))
    /\ lusdLast.op = "whatChanged" =>
          (~lusdLast.result.defined <=> lusdLast.thatLUSD = lusdLast.this.currentLUSD)
    /\ lusdLast.op = "apply" =>
          /\ ~lusdLast.threw
          /\ lusdLast.result >= 0
          /\ (/\ lusdLast.change.withdrawLUSD # <<>>
              /\ \/ lusdLast.change.withdrawAllLUSD
                 \/ lusdLast.change.withdrawLUSD[1] >= lusdLast.this.currentLUSD)
             => lusdLast.result = 0
          /\ \A x \in LUSDSamples :
                lusdLast.change = Base_whatChanged(lusdLast.this, x) => lusdLast.result = x

\* A deposit that has lost part of its LUSD is brought down to a positive
\* target by the withdrawal whatChanged computed.
C23_Witness ==
    /\ lusdLast.op = "apply"
    /\ lusdLast.this.currentLUSD < lusdLast.this.initialLUSD
    /\ lusdLast.change = Base_whatChanged(lusdLast.this, 1)
    /\ lusdLast.change.withdrawLUSD = <<lusdLast.this.currentLUSD - 1>>
    /\ ~lusdLast.change.withdrawAllLUSD
    /\ lusdLast.result = 1

====
